---- MODULE Spec2Model ----
(***************************************************************************)
(* AIos: the orchestration client of src/src/App.js.                       *)
(*                                                                         *)
(* Two LLM calls (callGeminiOrchestrator, callGeminiResponseGenerator),    *)
(* each with its own copy of a retry loop with exponential backoff, and    *)
(* the React handler handleSend that drives classify -> branch -> respond  *)
(* -> persist and commits the user record and the system record in one     *)
(* Firestore write batch.                                                  *)
(***************************************************************************)
EXTENDS Integers, Sequences, FiniteSets, TLC

(***************************************************************************)
(* Program constants                                                       *)
(***************************************************************************)
MAX_RETRIES == 3

\* let delay = 1000 (both calls)
InitialDelay == 1000

(***************************************************************************)
(* Bounds of the model                                                     *)
(***************************************************************************)
\* accepted submissions (handleSend invocations that pass the guard)
MaxSubmissions == 2

\* entries of groundingMetadata.groundingAttributions in one reply
MaxAttributions == 4

\* the resolution of the server's clock: a Timestamp has seconds and
\* nanoseconds, the model counts ticks of 1 / TicksPerSecond s
TicksPerSecond == 2

(***************************************************************************)
(* JavaScript values                                                       *)
(***************************************************************************)
\* the value `undefined`, where a string is expected
Undefined == "<undefined>"

\* if (jsonText) / if (text): undefined and the empty string are falsy
Truthy(s) == s /= Undefined /\ s /= ""

\* error.message of every error the two calls can meet. `tmpl` is the text
\* with ${response.status} left open, `status` fills it (0: no status in it),
\* `prefix` is what a re-throw puts in front of it.
Message(tmpl, status) == [prefix |-> "", tmpl |-> tmpl, status |-> status]

NoMessage == Message("", 0)

\* a string with nothing interpolated
Str(s) == Message(s, 0)

\* TypeError of fetch on a connectivity failure: Chromium, Firefox, WebKit
FailedToFetch == Message("Failed to fetch", 0)
NetworkErrorFirefox == Message("NetworkError when attempting to fetch resource.", 0)
LoadFailed == Message("Load failed", 0)

\* SyntaxError of JSON.parse / response.json(); V8 quotes the source text
SyntaxErrorPlain == Message("Unexpected token 'o', \"not json\" is not valid JSON", 0)
SyntaxErrorQuoting == Message("Unexpected token 'F', \"Failed to fetch\" is not valid JSON", 0)
SyntaxErrorBody == Message("Unexpected token '<', \"<html>\" is not valid JSON", 0)

\* String.prototype.includes over the messages above
Includes(message, needle) ==
    CASE needle = "Failed to fetch" ->
            message.tmpl \in {FailedToFetch.tmpl, SyntaxErrorQuoting.tmpl}
      [] needle = "NetworkError" ->
            message.tmpl = NetworkErrorFirefox.tmpl
      [] OTHER -> FALSE

\* arguments: { query } of an orchestration result
Arguments(q) == [kind |-> "object", query |-> q]
NoArguments == [kind |-> "undefined", query |-> Str(Undefined)]
NullArguments == [kind |-> "null", query |-> Str(Undefined)]

\* a parsed JSON value, seen through the three properties handleSend reads
Object(intent, tool, args) ==
    [kind |-> "object", intent |-> intent, tool_triggered |-> tool, arguments |-> args]

JSNull == [kind |-> "null", intent |-> Undefined, tool_triggered |-> Undefined,
           arguments |-> NoArguments]

\* no value (the call has not returned)
NoValue == [kind |-> "none", intent |-> Undefined, tool_triggered |-> Undefined,
            arguments |-> NoArguments]

(***************************************************************************)
(* Model replies: candidates[0].content.parts[0].text                      *)
(***************************************************************************)
JsonCalendar == "{\"intent\":\"calendar_tool\",\"tool_triggered\":\"Calendar API\",\"arguments\":{\"query\":\"lunch Friday\"}}"
JsonCommunication == "{\"intent\":\"communication_tool\",\"tool_triggered\":\"Email Draft\",\"arguments\":{\"query\":\"note to boss\"}}"
JsonImage == "{\"intent\":\"image_generation\",\"tool_triggered\":\"Imagen Tool\",\"arguments\":{\"query\":\"a logo\"}}"
JsonGemini == "{\"intent\":\"gemini_response\",\"tool_triggered\":\"Gemini Responder\",\"arguments\":{\"query\":\"news today\"}}"
JsonChat == "{\"intent\":\"general_chat\",\"tool_triggered\":\"Chat\",\"arguments\":{\"query\":\"hello\"}}"
JsonError == "{\"intent\":\"error\",\"tool_triggered\":\"None\",\"arguments\":{\"query\":\"cannot classify\"}}"
JsonSearch == "{\"intent\":\"google_search\",\"tool_triggered\":\"Search\",\"arguments\":{\"query\":\"weather\"}}"
JsonNoArguments == "{\"intent\":\"general_chat\",\"tool_triggered\":\"Chat\"}"
JsonNoIntent == "{\"tool_triggered\":\"Chat\",\"arguments\":{\"query\":\"hello\"}}"
JsonNullArguments == "{\"intent\":\"calendar_tool\",\"tool_triggered\":\"Calendar API\",\"arguments\":null}"
JsonNull == "null"
TextNotJson == "not json"
TextFailedToFetch == "Failed to fetch"

\* JSON.parse: the value, or the SyntaxError it throws
JSONParse(text) ==
    CASE text = JsonCalendar ->
            [ok |-> TRUE, error |-> NoMessage,
             value |-> Object("calendar_tool", "Calendar API", Arguments(Str("lunch Friday")))]
      [] text = JsonCommunication ->
            [ok |-> TRUE, error |-> NoMessage,
             value |-> Object("communication_tool", "Email Draft", Arguments(Str("note to boss")))]
      [] text = JsonImage ->
            [ok |-> TRUE, error |-> NoMessage,
             value |-> Object("image_generation", "Imagen Tool", Arguments(Str("a logo")))]
      [] text = JsonGemini ->
            [ok |-> TRUE, error |-> NoMessage,
             value |-> Object("gemini_response", "Gemini Responder", Arguments(Str("news today")))]
      [] text = JsonChat ->
            [ok |-> TRUE, error |-> NoMessage,
             value |-> Object("general_chat", "Chat", Arguments(Str("hello")))]
      [] text = JsonError ->
            [ok |-> TRUE, error |-> NoMessage,
             value |-> Object("error", "None", Arguments(Str("cannot classify")))]
      [] text = JsonSearch ->
            [ok |-> TRUE, error |-> NoMessage,
             value |-> Object("google_search", "Search", Arguments(Str("weather")))]
      [] text = JsonNoArguments ->
            [ok |-> TRUE, error |-> NoMessage,
             value |-> Object("general_chat", "Chat", NoArguments)]
      [] text = JsonNoIntent ->
            [ok |-> TRUE, error |-> NoMessage,
             value |-> Object(Undefined, "Chat", Arguments(Str("hello")))]
      [] text = JsonNullArguments ->
            [ok |-> TRUE, error |-> NoMessage,
             value |-> Object("calendar_tool", "Calendar API", NullArguments)]
      [] text = JsonNull ->
            [ok |-> TRUE, error |-> NoMessage, value |-> JSNull]
      [] text = TextFailedToFetch ->
            [ok |-> FALSE, error |-> SyntaxErrorQuoting, value |-> NoValue]
      [] OTHER ->
            [ok |-> FALSE, error |-> SyntaxErrorPlain, value |-> NoValue]

(***************************************************************************)
(* Grounding: candidates[0].groundingMetadata.groundingAttributions        *)
(***************************************************************************)
\* one attribution: { web: { title, uri } }, or an entry without `web`
Attribution(title, uri) == [web |-> TRUE, title |-> title, uri |-> uri]

NoWeb == [web |-> FALSE, title |-> Undefined, uri |-> Undefined]

Attributions ==
    { Attribution("A", Undefined), Attribution(Undefined, "http://b"),
      Attribution("C", "http://c"), Attribution("D", Undefined), NoWeb }

\* groundingMetadata.groundingAttributions as the reply carries it
Array(items) == [kind |-> "array", items |-> items]

\* no groundingMetadata, or no groundingAttributions in it
NoAttributions == [kind |-> "undefined", items |-> <<>>]

AttributionLists ==
    UNION { [1 .. n -> Attributions] : n \in 0 .. MaxAttributions }

(***************************************************************************)
(* Transport outcomes of one fetch                                         *)
(***************************************************************************)
\* fetch rejects (connectivity failure)
Reject(message) ==
    [kind |-> "reject", status |-> 0, bodyOk |-> FALSE, text |-> Undefined,
     attributions |-> NoAttributions, error |-> message]

\* fetch resolves with a non-2xx response
Http(status) ==
    [kind |-> "response", status |-> status, bodyOk |-> TRUE, text |-> Undefined,
     attributions |-> NoAttributions, error |-> NoMessage]

\* fetch resolves with 200 and a JSON body carrying `text` (or no text)
Ok(text) ==
    [kind |-> "response", status |-> 200, bodyOk |-> TRUE, text |-> text,
     attributions |-> NoAttributions, error |-> NoMessage]

\* fetch resolves with 200 and a JSON body carrying `text` and grounding
\* attributions
OkGrounded(text, attributions) ==
    [kind |-> "response", status |-> 200, bodyOk |-> TRUE, text |-> text,
     attributions |-> attributions, error |-> NoMessage]

\* fetch resolves with 200 and a body response.json() cannot parse
OkBadBody ==
    [kind |-> "response", status |-> 200, bodyOk |-> FALSE, text |-> Undefined,
     attributions |-> NoAttributions, error |-> SyntaxErrorBody]

\* response.ok
ResponseOk(o) == o.status >= 200 /\ o.status <= 299

FetchErrors == {FailedToFetch, NetworkErrorFirefox, LoadFailed}

FailureStatuses == {400, 429, 500, 503}

ClassifierTexts ==
    {Undefined, "", JsonCalendar, JsonCommunication, JsonImage, JsonGemini, JsonChat,
     JsonError, JsonSearch, JsonNoArguments, JsonNoIntent, JsonNullArguments,
     JsonNull, TextNotJson, TextFailedToFetch}

ResponderTexts == {Undefined, "It is sunny."}

\* every transport outcome of one attempt (the retry harness draws from these)
TransportOutcomes ==
    {Reject(m) : m \in FetchErrors} \cup {Http(s) : s \in FailureStatuses}
        \cup {Ok(t) : t \in ClassifierTexts \cup ResponderTexts} \cup {OkBadBody}

\* one outcome of each kind the classifier call tells apart
ClassifierOutcomes ==
    {Reject(FailedToFetch), Reject(LoadFailed), Http(400), Http(503)}
        \cup {Ok(t) : t \in ClassifierTexts \ {"", JsonNullArguments}}

\* one outcome of each kind the responder call tells apart
ResponderOutcomes ==
    {Reject(FailedToFetch), Reject(LoadFailed), Http(400), Http(503), OkBadBody}
        \cup {Ok(t) : t \in ResponderTexts}

\* the outcomes that decide the path of a submission through handleSend:
\* a retry, a throw, a tool intent, a conversational intent, a reply without
\* `arguments`
ClassifierOutcomesCoarse ==
    {Http(503), Http(400), Ok(JsonCalendar), Ok(JsonChat), Ok(JsonNoArguments)}

ResponderOutcomesCoarse == {Http(503), Ok("It is sunny.")}

\* replies with and without text, with every list of grounding attributions,
\* and one retryable failure
GroundedOutcomes ==
    {Http(503), Ok("It is sunny.")}
        \cup { OkGrounded(t, Array(l)) : t \in ResponderTexts, l \in AttributionLists }

(***************************************************************************)
(* callGeminiOrchestrator: the state of one invocation                     *)
(*   i, delay   the loop variables                                         *)
(*   phase      "fetching" (await fetch), "waiting" (await setTimeout),    *)
(*              "returned", "threw"                                        *)
(*   fetches    network requests issued so far                             *)
(*   waits      the backoff waits started so far, in ms                    *)
(***************************************************************************)
\* return { intent: "error", tool_triggered: "System Error", ... }
SystemError == Object("error", "System Error", Arguments(Str("Failed to parse LLM response.")))

\* return { intent: "error", tool_triggered: "API Timeout", ... }
ApiTimeout == Object("error", "API Timeout", Arguments(Str("API call timed out after multiple retries.")))

\* the call is entered: let delay = 1000; i = 0; the first fetch is issued
OrchestratorCall ==
    [i |-> 0, delay |-> InitialDelay, phase |-> "fetching", fetches |-> 1,
     waits |-> <<>>, value |-> NoValue, error |-> NoMessage]

\* no call
OrchestratorIdle ==
    [i |-> 0, delay |-> 0, phase |-> "idle", fetches |-> 0,
     waits |-> <<>>, value |-> NoValue, error |-> NoMessage]

\* response.status === 429 || response.status >= 500
OrchestratorRetryableStatus(status) == status = 429 \/ status >= 500

\* mutant: the retry test is off by one
OrchestratorRetriesLeftOffByOne(i) == i < MAX_RETRIES

\* i < MAX_RETRIES - 1
OrchestratorRetriesLeft(i) == i < MAX_RETRIES - 1

\* error.message.includes('Failed to fetch') || error.message.includes('NetworkError')
OrchestratorConnectivityError(message) ==
    Includes(message, "Failed to fetch") \/ Includes(message, "NetworkError")

\* await new Promise(r => setTimeout(r, delay))
OrchestratorBackoff(c) ==
    [c EXCEPT !.phase = "waiting", !.waits = Append(@, c.delay)]

OrchestratorReturn(c, v) == [c EXCEPT !.phase = "returned", !.value = v]

\* throw new Error(error.message || "Unknown API error.")
OrchestratorThrow(c, message) ==
    [c EXCEPT !.phase = "threw",
              !.error = IF message.tmpl = "" THEN Message("Unknown API error.", 0)
                        ELSE message]

\* catch (error) { ... }
OrchestratorCatch(c, error) ==
    IF OrchestratorRetriesLeft(c.i) /\ OrchestratorConnectivityError(error)
    THEN OrchestratorBackoff(c)
    ELSE OrchestratorThrow(c, error)

\* the try block of attempt c.i, from the moment its fetch settles with o
OrchestratorAttempt(c, o) ==
    IF o.kind = "reject" THEN OrchestratorCatch(c, o.error)
    ELSE IF ResponseOk(o) THEN
        IF ~o.bodyOk THEN OrchestratorCatch(c, o.error)
        ELSE IF Truthy(o.text) THEN
            LET parsed == JSONParse(o.text)
            IN  IF parsed.ok THEN OrchestratorReturn(c, parsed.value)
                ELSE OrchestratorCatch(c, parsed.error)
        ELSE OrchestratorReturn(c, SystemError)
    ELSE IF OrchestratorRetryableStatus(o.status) THEN
        IF OrchestratorRetriesLeft(c.i) THEN OrchestratorBackoff(c)
        ELSE OrchestratorCatch(c,
                Message("Orchestrator API returned status ${response.status} after ${MAX_RETRIES} attempts.",
                        o.status))
    ELSE OrchestratorCatch(c,
            Message("Orchestrator API returned status ${response.status}", o.status))

\* mutant: the delay is not doubled
OrchestratorResumeSameDelay(c) ==
    IF c.i + 1 < MAX_RETRIES
    THEN [c EXCEPT !.i = c.i + 1, !.phase = "fetching", !.fetches = @ + 1]
    ELSE [c EXCEPT !.i = c.i + 1, !.phase = "returned", !.value = ApiTimeout]

\* the timer fires: delay *= 2; continue; i++; the loop test; the next fetch,
\* or the statement after the loop
OrchestratorResume(c) ==
    IF c.i + 1 < MAX_RETRIES
    THEN [c EXCEPT !.i = c.i + 1, !.delay = c.delay * 2, !.phase = "fetching",
                   !.fetches = @ + 1]
    ELSE [c EXCEPT !.i = c.i + 1, !.delay = c.delay * 2, !.phase = "returned",
                   !.value = ApiTimeout]

(***************************************************************************)
(* callGeminiResponseGenerator: the state of one invocation                *)
(***************************************************************************)
\* mutant: grounding is requested for every intent
PayloadAlwaysGrounded(intent) ==
    [systemPrompt |-> "grounded assistant", tools |-> "google_search"]

\* the request body: systemInstruction and tools are chosen by the intent;
\* JSON.stringify leaves a property whose value is undefined out of the body
Payload(intent) ==
    [systemPrompt |-> IF intent = "gemini_response" THEN "grounded assistant"
                      ELSE "conversational assistant",
     tools |-> IF intent = "gemini_response" THEN "google_search" ELSE Undefined]

\* no request
NoPayload == [systemPrompt |-> Undefined, tools |-> Undefined]

\* attr.web?.title || attr.web?.uri
Source(attr) ==
    IF ~attr.web THEN Undefined
    ELSE IF Truthy(attr.title) THEN attr.title
    ELSE attr.uri

\* Array.prototype.filter(Boolean)
RECURSIVE FilterBoolean(_)
FilterBoolean(seq) ==
    IF seq = <<>> THEN <<>>
    ELSE IF Truthy(Head(seq)) THEN <<Head(seq)>> \o FilterBoolean(Tail(seq))
    ELSE FilterBoolean(Tail(seq))

\* Array.prototype.slice(0, n)
Slice(seq, n) == SubSeq(seq, 1, IF Len(seq) < n THEN Len(seq) ELSE n)

\* sources: .map(attr => ..).filter(Boolean).slice(0, 3)
Sources(items) ==
    Slice(FilterBoolean([k \in DOMAIN items |-> Source(items[k])]), 3)

\* the entries of the Sources line, in the order sources.join(', ') writes
\* them; <<>> is citations = '' (no line is appended)
Citations(attributions) ==
    IF attributions.kind = "array" THEN Sources(attributions.items) ELSE <<>>

\* return text + citations
Answer(text, citations) == [text |-> text, citations |-> citations]

NoAnswer == Answer(Undefined, <<>>)

\* mutant: a reply without text is returned as it is
NoTextAnswerUndefined == Answer(Undefined, <<>>)

\* return "Gemini failed to generate a response (no text returned)."
NoTextAnswer ==
    Answer("Gemini failed to generate a response (no text returned).", <<>>)

\* the call is entered with `intent`: the payload is built, let delay = 1000;
\* i = 0; the first fetch is issued
ResponderCall(intent) ==
    [intent |-> intent, i |-> 0, delay |-> InitialDelay, phase |-> "fetching",
     fetches |-> 1, waits |-> <<>>, payload |-> Payload(intent),
     answer |-> NoAnswer, error |-> NoMessage]

ResponderIdle ==
    [intent |-> Undefined, i |-> 0, delay |-> 0, phase |-> "idle",
     fetches |-> 0, waits |-> <<>>, payload |-> NoPayload,
     answer |-> NoAnswer, error |-> NoMessage]

\* response.status === 429 || response.status >= 500
ResponderRetryableStatus(status) == status = 429 \/ status >= 500

\* i < MAX_RETRIES - 1
ResponderRetriesLeft(i) == i < MAX_RETRIES - 1

\* error.message.includes('Failed to fetch') || error.message.includes('NetworkError')
ResponderConnectivityError(message) ==
    Includes(message, "Failed to fetch") \/ Includes(message, "NetworkError")

\* await new Promise(r => setTimeout(r, delay))
ResponderBackoff(c) ==
    [c EXCEPT !.phase = "waiting", !.waits = Append(@, c.delay)]

ResponderReturn(c, a) == [c EXCEPT !.phase = "returned", !.answer = a]

\* throw new Error(`Response Generator failed: ${error.message}`)
ResponderThrow(c, message) ==
    [c EXCEPT !.phase = "threw",
              !.error = [message EXCEPT !.prefix = "Response Generator failed: "]]

\* catch (error) { ... }
ResponderCatch(c, error) ==
    IF ResponderRetriesLeft(c.i) /\ ResponderConnectivityError(error)
    THEN ResponderBackoff(c)
    ELSE ResponderThrow(c, error)

\* the try block of attempt c.i, from the moment its fetch settles with o
ResponderAttempt(c, o) ==
    IF o.kind = "reject" THEN ResponderCatch(c, o.error)
    ELSE IF ResponseOk(o) THEN
        IF ~o.bodyOk THEN ResponderCatch(c, o.error)
        ELSE IF Truthy(o.text)
             THEN ResponderReturn(c, Answer(o.text, Citations(o.attributions)))
        ELSE ResponderReturn(c, NoTextAnswer)
    ELSE IF ResponderRetryableStatus(o.status) THEN
        IF ResponderRetriesLeft(c.i) THEN ResponderBackoff(c)
        ELSE ResponderCatch(c,
                Message("Response Generator API returned status ${response.status} after ${MAX_RETRIES} attempts.",
                        o.status))
    ELSE ResponderCatch(c,
            Message("Response Generator API returned status ${response.status}", o.status))

\* mutant: the backoff promise never resolves
ResponderResumeStalled(c) == c

\* the timer fires: delay *= 2; continue; i++; the loop test; the next fetch,
\* or the statement after the loop
ResponderResume(c) ==
    IF c.i + 1 < MAX_RETRIES
    THEN [c EXCEPT !.i = c.i + 1, !.delay = c.delay * 2, !.phase = "fetching",
                   !.fetches = @ + 1]
    ELSE [c EXCEPT !.i = c.i + 1, !.delay = c.delay * 2, !.phase = "returned",
                   !.answer = Answer("API call to the Response Generator timed out.", <<>>)]

(***************************************************************************)
(* Texts the user types, and String.prototype.trim over them               *)
(***************************************************************************)
Texts == {" ", "Schedule lunch Friday "}

Trim(text) ==
    CASE text = " " -> ""
      [] text = "Schedule lunch Friday " -> "Schedule lunch Friday"
      [] OTHER -> text

(***************************************************************************)
(* Chat records (documents of the messages collection)                     *)
(***************************************************************************)
\* the text of a record: the user's text (lead "plain"), or finalResponse:
\*   lead "summary": orchestrationSummary + cont + answer / error
\*   lead "failure": `Orchestration Failure: ${tool}. Details: ${query}`
UserText(text) ==
    [lead |-> "plain", plain |-> text, intent |-> Undefined, tool |-> Undefined,
     query |-> Str(Undefined), cont |-> "", answer |-> NoAnswer, error |-> NoMessage]

\* orchestrationSummary + continuation
SummaryThen(intent, tool, query, cont, answer, error) ==
    [lead |-> "summary", plain |-> "", intent |-> intent, tool |-> tool,
     query |-> query, cont |-> cont, answer |-> answer, error |-> error]

\* `Orchestration Failure: ${tool_triggered}. Details: ${querySummary}`
OrchestrationFailure(tool, query) ==
    [lead |-> "failure", plain |-> "", intent |-> Undefined, tool |-> tool,
     query |-> query, cont |-> "", answer |-> NoAnswer, error |-> NoMessage]

NoText == UserText(Undefined)

\* no user signed in
Null == "<null>"

\* userMessageData; timestamp 0 is the unresolved serverTimestamp()
UserMessageData(sub, textToSend, userId) ==
    [id |-> 2 * sub - 1, sub |-> sub, text |-> UserText(textToSend), userId |-> userId,
     timestamp |-> 0, type |-> "user_query", isSystem |-> FALSE]

\* mutant: the system record does not carry the intent
AiResponseDataUntyped(sub, finalResponse, intent) ==
    [id |-> 2 * sub, sub |-> sub, text |-> finalResponse, userId |-> "AIos_gNode",
     timestamp |-> 0, type |-> "system", isSystem |-> TRUE]

\* aiResponseData
AiResponseData(sub, finalResponse, intent) ==
    [id |-> 2 * sub, sub |-> sub, text |-> finalResponse, userId |-> "AIos_gNode",
     timestamp |-> 0, type |-> intent, isSystem |-> TRUE]

(***************************************************************************)
(* handleSend: one accepted submission                                     *)
(*   pc  "classifying"  await callGeminiOrchestrator(textToSend)           *)
(*       "responding"   await callGeminiResponseGenerator(textToSend, ..)  *)
(*       "committing"   the handler has returned, batch.commit() pending   *)
(*       "done"         the commit has settled and .finally has run        *)
(*       "threw"        the handler's promise rejected (uncaught error)    *)
(*   caught  the catch block around the classifier call ran                *)
(*   calls   invocations of callGeminiResponseGenerator                    *)
(***************************************************************************)
Sessions == {1, 2}

SessionUser(u) == IF u = 1 THEN "user-1" ELSE "user-2"

Submissions == 1 .. MaxSubmissions

NoChain ==
    [pc |-> "unused", session |-> 0, text |-> "", userId |-> Null,
     classifier |-> OrchestratorIdle, caught |-> FALSE, result |-> NoValue,
     responder |-> ResponderIdle, calls |-> 0, finalResponse |-> NoText,
     batch |-> <<>>, commits |-> 0]

\* mutant: no try/catch around the classifier call
OrchestrationResultUncaught(c) == c.value

\* try { orchestrationResult = await callGeminiOrchestrator(..) } catch (e) { .. }
OrchestrationResult(c) ==
    IF c.phase = "threw"
    THEN Object("error", "API Failure", Arguments(c.error))
    ELSE c.value

\* const { intent, tool_triggered, arguments: { query: querySummary } } = ..
\* throws a TypeError on null and on a missing or null `arguments`
Destructurable(v) == v.kind = "object" /\ v.arguments.kind = "object"

\* mutant: only general_chat reaches the second call
CallsResponderChatOnly(intent) == intent = "general_chat"

\* intent === 'general_chat' || intent === 'gemini_response'
CallsResponder(intent) == intent = "general_chat" \/ intent = "gemini_response"

\* finalResponse of the branches that make no second call
FinalResponseNoCall(v) ==
    IF v.intent = "error"
    THEN OrchestrationFailure(v.tool_triggered, v.arguments.query)
    ELSE SummaryThen(v.intent, v.tool_triggered, v.arguments.query,
                     "**Tool Execution Mock:**", NoAnswer, NoMessage)

\* mutant: no try/catch around the responder call, a throw reads as an answer
FinalResponseAfterCallNoCatch(v, r) ==
    SummaryThen(v.intent, v.tool_triggered, v.arguments.query,
                "--- AIos Response ---", r.answer, NoMessage)

\* finalResponse after callGeminiResponseGenerator has returned or thrown
FinalResponseAfterCall(v, r) ==
    IF r.phase = "threw"
    THEN SummaryThen(v.intent, v.tool_triggered, v.arguments.query,
                     "--- Response Generation Failed ---", NoAnswer, r.error)
    ELSE SummaryThen(v.intent, v.tool_triggered, v.arguments.query,
                     "--- AIos Response ---", r.answer, NoMessage)

\* mutant: the batch is built before finalResponse is assigned
PersistBeforeFinal(ch, sub, finalResponse) ==
    IF ch.result.intent = Undefined
    THEN [ch EXCEPT !.pc = "threw", !.finalResponse = finalResponse]
    ELSE [ch EXCEPT !.pc = "committing",
                    !.finalResponse = finalResponse,
                    !.batch = << UserMessageData(sub, ch.text, ch.userId),
                                 AiResponseData(sub, NoText, ch.result.intent) >>,
                    !.commits = @ + 1]

\* writeBatch(db); batch.set(userDocRef, ..); batch.set(aiDocRef, ..); batch.commit()
\* batch.set throws on a field whose value is undefined (type: intent), and
\* the handler ends there
Persist(ch, sub, finalResponse) ==
    IF ch.result.intent = Undefined
    THEN [ch EXCEPT !.pc = "threw", !.finalResponse = finalResponse]
    ELSE [ch EXCEPT !.pc = "committing",
                    !.finalResponse = finalResponse,
                    !.batch = << UserMessageData(sub, ch.text, ch.userId),
                                 AiResponseData(sub, finalResponse, ch.result.intent) >>,
                    !.commits = @ + 1]

\* handleSend from the end of the classifier call to its next await or its end
AfterClassifier(ch, sub) ==
    LET v == OrchestrationResult(ch.classifier)
        withResult == [ch EXCEPT !.result = v, !.classifier = OrchestratorIdle,
                                 !.caught = (ch.classifier.phase = "threw")]
    IN  IF ~Destructurable(v) THEN [withResult EXCEPT !.pc = "threw"]
        ELSE IF v.intent = "error"
             THEN Persist(withResult, sub, FinalResponseNoCall(v))
        ELSE IF CallsResponder(v.intent)
             THEN [withResult EXCEPT !.pc = "responding",
                                     !.responder = ResponderCall(v.intent),
                                     !.calls = @ + 1]
        ELSE Persist(withResult, sub, FinalResponseNoCall(v))

\* handleSend from the end of the responder call to its end
AfterResponder(ch, sub) ==
    Persist([ch EXCEPT !.responder = ResponderIdle], sub,
            FinalResponseAfterCall(ch.result, ch.responder))

\* the submission once its commit has settled: the handler's locals are gone
Settled(ch) ==
    [NoChain EXCEPT !.pc = "done", !.session = ch.session, !.commits = ch.commits]

\* mutant: two separate writes, of which the second is lost
CommittedFirstOnly(batch, time) ==
    { [batch[k] EXCEPT !.timestamp = time] : k \in DOMAIN batch \cap {1} }

\* the documents of a committed batch, with the server's timestamp
Committed(batch, time) ==
    { [batch[k] EXCEPT !.timestamp = time] : k \in DOMAIN batch }

(***************************************************************************)
(* State                                                                   *)
(***************************************************************************)
VARIABLES
    active,        \* the sessions (browser tabs) that run the app
    db,            \* useState: the Firestore handle is set
    isAuthReady,   \* useState
    userId,        \* useState
    newMessage,    \* useState: the input text
    error,         \* useState: the error banner
    isSending,     \* useState: the in-flight flag
    closure,       \* the state values the last render captured
    messages,      \* useState: the list the chat view renders
    chain,         \* the accepted submissions
    submitted,     \* number of accepted submissions
    log,           \* the documents of the shared messages collection
    clock,         \* the server's commit time, in ticks
    network,       \* the outcomes the two calls may meet in this run
    quota,         \* the submissions the user makes in this run
    script,        \* retry harness: the transport outcomes of attempts 1..3
    oc,            \* retry harness: a callGeminiOrchestrator invocation
    rc             \* retry harness: a callGeminiResponseGenerator invocation

\* the GenUI client (src/unnamed/part_001): the state of its App component
VARIABLES
    apiKey,        \* the API_KEY the build was made with
    genMessages,   \* useState messages
    input,         \* useState
    loading,       \* useState
    activeUI,      \* useState: the message shown in the pop-up, or null
    genClosure,    \* the state values the last render captured
    invocation,    \* the handleSubmit invocations that passed the guard
    genSubmitted,  \* number of such invocations
    genEvents      \* the gen-ui-command events dispatched on window

appVars == << active, db, isAuthReady, userId, newMessage, error, isSending, closure,
              messages, chain, submitted, log, clock, network, quota >>

harnessVars == << script, oc, rc >>

genVars == << apiKey, genMessages, input, loading, activeUI, genClosure, invocation,
              genSubmitted, genEvents >>

vars == << active, db, isAuthReady, userId, newMessage, error, isSending, closure,
           messages, chain, submitted, log, clock, network, quota,
           script, oc, rc,
           apiKey, genMessages, input, loading, activeUI, genClosure, invocation,
           genSubmitted, genEvents >>

\* what a render captures: handleSend's useCallback dependencies and the
\* values the input, the button and the snapshot effect read
Captured(u) ==
    [db |-> db[u], isAuthReady |-> isAuthReady[u], userId |-> userId[u],
     newMessage |-> newMessage[u], isSending |-> isSending[u]]

NoError == "<null>"

\* e.message of a rejected batch.commit()
PermissionDenied == "Missing or insufficient permissions."

\* mutant: the rejection of the commit is swallowed
SendFailedSwallowed(message) == NoError

\* .catch(e => setError("Failed to send message: " + e.message)): the
\* concatenation, over the commit errors of the model
SendFailed(message) ==
    CASE message = PermissionDenied ->
            "Failed to send message: Missing or insufficient permissions."
      [] OTHER -> "Failed to send message: "

AppInit(tabs, outcomes, submissions) ==
    /\ active = tabs
    /\ network = outcomes
    /\ quota = submissions
    /\ db = [u \in Sessions |-> FALSE]
    /\ isAuthReady = [u \in Sessions |-> FALSE]
    /\ userId = [u \in Sessions |-> Null]
    /\ newMessage = [u \in Sessions |-> ""]
    /\ error = [u \in Sessions |-> NoError]
    /\ isSending = [u \in Sessions |-> FALSE]
    /\ closure = [u \in Sessions |->
                    [db |-> FALSE, isAuthReady |-> FALSE, userId |-> Null,
                     newMessage |-> "", isSending |-> FALSE]]
    /\ messages = [u \in Sessions |-> <<>>]
    /\ chain = [s \in Submissions |-> NoChain]
    /\ submitted = 0
    /\ log = {}
    /\ clock = TicksPerSecond

(***************************************************************************)
(* The GenUI client: src/unnamed/part_001                                  *)
(***************************************************************************)
\* a string of the client, as prefix followed by body
Reply(prefix, body) == [prefix |-> prefix, body |-> body]

\* the reply text of the model that carries a fenced html block (~ stands
\* for the backquote character of the fence), and the group that
\* text.match(/~~~html\n([\s\S]*?)~~~/i) captures from it
FencedHtml == "~~~html\n<div class=\"p-4\">Hi</div>\n~~~"
CapturedHtml == "<div class=\"p-4\">Hi</div>\n"

\* what one fetch of invokeAI ends in, up to await response.json():
\*   "reject"   fetch rejects
\*   "badbody"  response.json() rejects
\*   "null"     the body is the JSON value null
\*   "json"     the body is an object: result.error (hasError, with or
\*              without a message), or candidates[0].content.parts[0].text
GenOutcome(kind, hasError, message, text) ==
    [kind |-> kind, hasError |-> hasError, message |-> message, text |-> text]

\* no fetch is made (the key is missing)
GenNoFetch == GenOutcome("none", FALSE, Undefined, Undefined)

GenOutcomes ==
    { GenOutcome("reject", FALSE, "Failed to fetch", Undefined),
      GenOutcome("badbody", FALSE, "Unexpected token '<', \"<html>\" is not valid JSON",
                 Undefined),
      GenOutcome("null", FALSE, "Cannot read properties of null (reading 'error')",
                 Undefined),
      GenOutcome("json", TRUE, "API key not valid.", Undefined),
      GenOutcome("json", TRUE, Undefined, Undefined),
      GenOutcome("json", FALSE, Undefined, Undefined),
      GenOutcome("json", FALSE, Undefined, "Hello"),
      GenOutcome("json", FALSE, Undefined, FencedHtml) }

\* htmlMatch ? htmlMatch[1] : text
HtmlMatch(text) == IF text = FencedHtml THEN CapturedHtml ELSE text

\* invokeAI: the string its promise resolves with
InvokeAI(key, o) ==
    IF ~Truthy(key) THEN Reply("Error: ", "API Key is missing.")
    ELSE IF o.kind \in {"reject", "badbody", "null"} THEN Reply("Error: ", o.message)
    ELSE IF o.hasError
         THEN Reply("Error: ", IF Truthy(o.message) THEN o.message ELSE "API Error")
    ELSE Reply("", HtmlMatch(IF Truthy(o.text) THEN o.text ELSE ""))

\* aiResponse.includes('<') || aiResponse.includes('class=')
IncludesMarkup(reply) ==
    reply.body \in { CapturedHtml, FencedHtml,
                     "Unexpected token '<', \"<html>\" is not valid JSON" }

\* userMsg
UserMsg(sub, userText) ==
    [id |-> 2 * sub - 1, sub |-> sub, text |-> Reply("", userText), sender |-> "user",
     type |-> "text"]

\* aiMsg
AiMsg(sub, aiResponse) ==
    [id |-> 2 * sub, sub |-> sub, text |-> aiResponse, sender |-> "aios-core",
     type |-> IF IncludesMarkup(aiResponse) THEN "code" ELSE "text"]

\* activeUI === null
NoUI == [id |-> 0, sub |-> 0, text |-> Reply("", ""), sender |-> "", type |-> "null"]

\* no invocation
NoInvocation == [pc |-> "unused", text |-> ""]

\* what a render of the GenUI App captures: handleSubmit, the input, the
\* buttons and the message list are rebuilt over these values
GenCaptured ==
    [messages |-> genMessages, input |-> input, loading |-> loading,
     activeUI |-> activeUI]

\* the GenUI client is not running
GenIdle ==
    /\ apiKey = ""
    /\ genMessages = <<>>
    /\ input = ""
    /\ loading = FALSE
    /\ activeUI = NoUI
    /\ genClosure = [messages |-> <<>>, input |-> "", loading |-> FALSE, activeUI |-> NoUI]
    /\ invocation = [s \in Submissions |-> NoInvocation]
    /\ genSubmitted = 0
    /\ genEvents = <<>>

HarnessIdle ==
    /\ script = <<>>
    /\ oc = OrchestratorIdle
    /\ rc = ResponderIdle

\* the intents callGeminiResponseGenerator is invoked with in the harness
HarnessIntents == {"general_chat", "gemini_response", "calendar_tool", "google_search"}

\* the retry harness: one invocation of each call, no session
InitRetry ==
    /\ AppInit({}, [classifier |-> {}, responder |-> {}], 0)
    /\ script = <<>>
    /\ oc = OrchestratorCall
    /\ \E intent \in HarnessIntents : rc = ResponderCall(intent)
    /\ GenIdle

\* one session, up to MaxSubmissions submissions
Init ==
    /\ AppInit({1},
               [classifier |-> ClassifierOutcomesCoarse,
                responder |-> ResponderOutcomesCoarse],
               MaxSubmissions)
    /\ HarnessIdle
    /\ GenIdle

\* two sessions on the same collection, each mounted, signed in, with a
\* text typed and rendered; up to MaxSubmissions submissions between them; a
\* retry, a reply without `arguments` and a conversational reply for the
\* classifier, a retry and an answer for the responder
InitSessions ==
    /\ active = {1, 2}
    /\ network = [classifier |-> {Http(503), Ok(JsonChat), Ok(JsonNoArguments)},
                  responder |-> ResponderOutcomesCoarse]
    /\ quota = MaxSubmissions
    /\ db = [u \in Sessions |-> TRUE]
    /\ isAuthReady = [u \in Sessions |-> TRUE]
    /\ userId = [u \in Sessions |-> SessionUser(u)]
    /\ newMessage = [u \in Sessions |-> "Schedule lunch Friday "]
    /\ error = [u \in Sessions |-> NoError]
    /\ isSending = [u \in Sessions |-> FALSE]
    /\ closure = [u \in Sessions |->
                    [db |-> TRUE, isAuthReady |-> TRUE, userId |-> SessionUser(u),
                     newMessage |-> "Schedule lunch Friday ", isSending |-> FALSE]]
    /\ messages = [u \in Sessions |-> <<>>]
    /\ chain = [s \in Submissions |-> NoChain]
    /\ submitted = 0
    /\ log = {}
    /\ clock = TicksPerSecond
    /\ HarnessIdle
    /\ GenIdle

\* one session, one submission, every kind of outcome
InitPipeline ==
    /\ AppInit({1},
               [classifier |-> ClassifierOutcomes, responder |-> ResponderOutcomes],
               1)
    /\ HarnessIdle
    /\ GenIdle

(***************************************************************************)
(* The snapshot listener                                                   *)
(***************************************************************************)
\* the elements of a sequence
Range(seq) == { seq[k] : k \in DOMAIN seq }

\* the documents of S in ascending order of document id
RECURSIVE AscendingById(_)
AscendingById(S) ==
    IF S = {} THEN <<>>
    ELSE LET first == CHOOSE x \in S : \A y \in S : x.id <= y.id
         IN  <<first>> \o AscendingById(S \ {first})

Reversed(seq) == [k \in DOMAIN seq |-> seq[Len(seq) + 1 - k]]

\* the orders in which a snapshot may deliver the documents of S: the query
\* has no orderBy, and the generated document ids are random
DeliveryOrders(S) == { AscendingById(S), Reversed(AscendingById(S)) }

\* timestamp?.seconds || 0: the whole seconds of a Timestamp; 0 for the
\* unresolved serverTimestamp() of a pending write (timestamp is null)
Seconds(timestamp) == timestamp \div TicksPerSecond

\* Array.prototype.sort (stable) with the comparator
\* (a.timestamp?.seconds || 0) - (b.timestamp?.seconds || 0)
InsertByTimestamp(sorted, r) ==
    LET k == Cardinality({ j \in DOMAIN sorted :
                              Seconds(sorted[j].timestamp) <= Seconds(r.timestamp) })
    IN  SubSeq(sorted, 1, k) \o <<r>> \o SubSeq(sorted, k + 1, Len(sorted))

RECURSIVE SortByTimestamp(_)
SortByTimestamp(docs) ==
    IF docs = <<>> THEN <<>>
    ELSE InsertByTimestamp(SortByTimestamp(SubSeq(docs, 1, Len(docs) - 1)),
                           docs[Len(docs)])

\* the writes of session u that its local cache holds and the server has not
\* acknowledged: their serverTimestamp() is still unresolved
PendingWrites(u) ==
    UNION { { chain[s].batch[k] : k \in DOMAIN chain[s].batch } :
            s \in { t \in Submissions :
                        chain[t].session = u /\ chain[t].pc = "committing" } }

(***************************************************************************)
(* Actions: mounting, authentication, rendering, typing                    *)
(***************************************************************************)
\* effect 1: initializeApp, setDb(firestore), setAuth(firebaseAuth)
Mount(u) ==
    /\ ~db[u]
    /\ db' = [db EXCEPT ![u] = TRUE]
    /\ UNCHANGED << active, isAuthReady, userId, newMessage, error, isSending, closure,
                    messages, chain, submitted, log, clock >>
    /\ UNCHANGED << network, quota >>
    /\ UNCHANGED harnessVars
    /\ UNCHANGED genVars

\* onAuthStateChanged with a user, or signInAnonymously resolved
AuthStateChanged(u) ==
    /\ db[u] /\ ~isAuthReady[u]
    /\ userId' = [userId EXCEPT ![u] = SessionUser(u)]
    /\ isAuthReady' = [isAuthReady EXCEPT ![u] = TRUE]
    /\ UNCHANGED << active, db, newMessage, error, isSending, closure,
                    messages, chain, submitted, log, clock >>
    /\ UNCHANGED << network, quota >>
    /\ UNCHANGED harnessVars
    /\ UNCHANGED genVars

\* signInAnonymously rejected
AuthFailed(u) ==
    /\ db[u] /\ ~isAuthReady[u]
    /\ error' = [error EXCEPT
                    ![u] = "Failed to authenticate anonymously. Check console for details."]
    /\ isAuthReady' = [isAuthReady EXCEPT ![u] = TRUE]
    /\ UNCHANGED << active, db, userId, newMessage, isSending, closure,
                    messages, chain, submitted, log, clock >>
    /\ UNCHANGED << network, quota >>
    /\ UNCHANGED harnessVars
    /\ UNCHANGED genVars

\* React re-renders App: handleSend and the JSX are rebuilt over the current state
Render(u) ==
    /\ closure[u] /= Captured(u)
    /\ closure' = [closure EXCEPT ![u] = Captured(u)]
    /\ UNCHANGED << active, db, isAuthReady, userId, newMessage, error, isSending,
                    messages, chain, submitted, log, clock >>
    /\ UNCHANGED << network, quota >>
    /\ UNCHANGED harnessVars
    /\ UNCHANGED genVars

\* onChange of the input, which is disabled={!db || !isAuthReady || isSending}
Type(u, text) ==
    /\ closure[u].db /\ closure[u].isAuthReady /\ ~closure[u].isSending
    /\ newMessage[u] /= text
    /\ newMessage' = [newMessage EXCEPT ![u] = text]
    /\ UNCHANGED << active, db, isAuthReady, userId, error, isSending, closure,
                    messages, chain, submitted, log, clock >>
    /\ UNCHANGED << network, quota >>
    /\ UNCHANGED harnessVars
    /\ UNCHANGED genVars

\* the onSnapshot callback of effect 2, which subscribes once
\* db && isAuthReady && userId hold in a render
Snapshot(u) ==
    /\ closure[u].db /\ closure[u].isAuthReady /\ closure[u].userId /= Null
    /\ \E docs \in DeliveryOrders(log \cup PendingWrites(u)) :
          /\ messages[u] /= SortByTimestamp(docs)
          /\ messages' = [messages EXCEPT ![u] = SortByTimestamp(docs)]
    /\ UNCHANGED << active, db, isAuthReady, userId, newMessage, error, isSending,
                    closure, chain, submitted, log, clock >>
    /\ UNCHANGED << network, quota >>
    /\ UNCHANGED harnessVars
    /\ UNCHANGED genVars

(***************************************************************************)
(* Actions: handleSend                                                     *)
(***************************************************************************)
\* if (!db || !userId || !textToSend || isSending) return;
Guard(c) ==
    c.db /\ c.userId /= Null /\ Trim(c.newMessage) /= "" /\ ~c.isSending

\* handleSend is invoked and returns at the guard
HandleSendRejected(u) ==
    /\ ~Guard(closure[u])
    /\ UNCHANGED << active, db, isAuthReady, userId, newMessage, error, isSending,
                    closure, messages, chain, submitted, log, clock >>
    /\ UNCHANGED << network, quota >>
    /\ UNCHANGED harnessVars
    /\ UNCHANGED genVars

\* mutant: the in-flight flag is one flag for all sessions
HandleSendSharedFlag(u) ==
    /\ Guard(closure[u])
    /\ submitted < quota
    /\ submitted' = submitted + 1
    /\ isSending' = [v \in Sessions |-> TRUE]
    /\ error' = [error EXCEPT ![u] = NoError]
    /\ chain' = [chain EXCEPT ![submitted + 1] =
                    [NoChain EXCEPT !.pc = "classifying",
                                    !.session = u,
                                    !.text = Trim(closure[u].newMessage),
                                    !.userId = closure[u].userId,
                                    !.classifier = OrchestratorCall]]
    /\ UNCHANGED << active, db, isAuthReady, userId, newMessage, closure, messages,
                    log, clock >>
    /\ UNCHANGED << network, quota >>
    /\ UNCHANGED harnessVars
    /\ UNCHANGED genVars

\* handleSend is invoked, passes the guard and runs to its first await:
\* setIsSending(true); setError(null); the first classifier fetch is issued
HandleSend(u) ==
    /\ Guard(closure[u])
    /\ submitted < quota
    /\ submitted' = submitted + 1
    /\ isSending' = [isSending EXCEPT ![u] = TRUE]
    /\ error' = [error EXCEPT ![u] = NoError]
    /\ chain' = [chain EXCEPT ![submitted + 1] =
                    [NoChain EXCEPT !.pc = "classifying",
                                    !.session = u,
                                    !.text = Trim(closure[u].newMessage),
                                    !.userId = closure[u].userId,
                                    !.classifier = OrchestratorCall]]
    /\ UNCHANGED << active, db, isAuthReady, userId, newMessage, closure, messages,
                    log, clock >>
    /\ UNCHANGED << network, quota >>
    /\ UNCHANGED harnessVars
    /\ UNCHANGED genVars

\* mutant: the input is not cleared
ContinueKeepsInput(s, next) ==
    /\ chain' = [chain EXCEPT ![s] = next]
    /\ UNCHANGED << active, db, isAuthReady, userId, newMessage, error, isSending,
                    closure, messages, submitted, log, clock >>
    /\ UNCHANGED << network, quota >>
    /\ UNCHANGED harnessVars
    /\ UNCHANGED genVars

\* the handler runs on from a finished call; setNewMessage('') is its last
\* statement, reached exactly when batch.commit() has been called
Continue(s, next) ==
    /\ chain' = [chain EXCEPT ![s] = next]
    /\ newMessage' = IF next.pc = "committing"
                     THEN [newMessage EXCEPT ![next.session] = ""]
                     ELSE newMessage
    /\ UNCHANGED << active, db, isAuthReady, userId, error, isSending, closure,
                    messages, submitted, log, clock >>
    /\ UNCHANGED << network, quota >>
    /\ UNCHANGED harnessVars
    /\ UNCHANGED genVars

\* the fetch of the classifier's current attempt settles
ClassifierFetchSettles(s, o) ==
    /\ chain[s].pc = "classifying"
    /\ chain[s].classifier.phase = "fetching"
    /\ LET c == OrchestratorAttempt(chain[s].classifier, o)
           ch == [chain[s] EXCEPT !.classifier = c]
       IN  Continue(s, IF c.phase = "waiting" THEN ch ELSE AfterClassifier(ch, s))

\* the classifier's backoff timer fires
ClassifierTimerFires(s) ==
    /\ chain[s].pc = "classifying"
    /\ chain[s].classifier.phase = "waiting"
    /\ LET c == OrchestratorResume(chain[s].classifier)
           ch == [chain[s] EXCEPT !.classifier = c]
       IN  Continue(s, IF c.phase = "fetching" THEN ch ELSE AfterClassifier(ch, s))

\* the fetch of the responder's current attempt settles
ResponderFetchSettles(s, o) ==
    /\ chain[s].pc = "responding"
    /\ chain[s].responder.phase = "fetching"
    /\ LET c == ResponderAttempt(chain[s].responder, o)
           ch == [chain[s] EXCEPT !.responder = c]
       IN  Continue(s, IF c.phase = "waiting" THEN ch ELSE AfterResponder(ch, s))

\* the responder's backoff timer fires
ResponderTimerFires(s) ==
    /\ chain[s].pc = "responding"
    /\ chain[s].responder.phase = "waiting"
    /\ LET c == ResponderResume(chain[s].responder)
           ch == [chain[s] EXCEPT !.responder = c]
       IN  Continue(s, IF c.phase = "fetching" THEN ch ELSE AfterResponder(ch, s))

\* the time between two commits, in ticks: less than a second, or a second
Elapsed == {1, TicksPerSecond}

\* batch.commit() resolves: both documents are in the collection;
\* .finally(() => setIsSending(false))
CommitResolves(s) ==
    /\ chain[s].pc = "committing"
    /\ log' = log \cup Committed(chain[s].batch, clock)
    /\ \E elapsed \in Elapsed : clock' = clock + elapsed
    /\ chain' = [chain EXCEPT ![s] = Settled(chain[s])]
    /\ isSending' = [isSending EXCEPT ![chain[s].session] = FALSE]
    /\ UNCHANGED << active, db, isAuthReady, userId, newMessage, error, closure,
                    messages, submitted >>
    /\ UNCHANGED << network, quota >>
    /\ UNCHANGED harnessVars
    /\ UNCHANGED genVars

\* batch.commit() rejects: .catch(e => setError("Failed to send message: " + ..))
\* and .finally(() => setIsSending(false))
CommitRejects(s) ==
    /\ chain[s].pc = "committing"
    /\ error' = [error EXCEPT ![chain[s].session] =
                    SendFailed(PermissionDenied)]
    /\ chain' = [chain EXCEPT ![s] = Settled(chain[s])]
    /\ isSending' = [isSending EXCEPT ![chain[s].session] = FALSE]
    /\ UNCHANGED << active, db, isAuthReady, userId, newMessage, closure,
                    messages, submitted, log, clock >>
    /\ UNCHANGED << network, quota >>
    /\ UNCHANGED harnessVars
    /\ UNCHANGED genVars

(***************************************************************************)
(* The retry harness: both calls are fed the same transport outcomes,      *)
(* attempt by attempt; script records the outcomes given so far            *)
(***************************************************************************)
\* the fetches of the current attempt settle with outcome o
HarnessFetchSettles(o) ==
    /\ oc.phase = "fetching" \/ rc.phase = "fetching"
    /\ script' = Append(script, o)
    /\ oc' = IF oc.phase = "fetching" THEN OrchestratorAttempt(oc, o) ELSE oc
    /\ rc' = IF rc.phase = "fetching" THEN ResponderAttempt(rc, o) ELSE rc
    /\ UNCHANGED appVars
    /\ UNCHANGED genVars

\* the backoff timers fire
HarnessTimerFires ==
    /\ oc.phase = "waiting" \/ rc.phase = "waiting"
    /\ oc' = IF oc.phase = "waiting" THEN OrchestratorResume(oc) ELSE oc
    /\ rc' = IF rc.phase = "waiting" THEN ResponderResume(rc) ELSE rc
    /\ UNCHANGED << appVars, script >>
    /\ UNCHANGED genVars

\* the steps of the GenUI client: src/unnamed/part_001
\* the GenUI client after its first render, built with or without a key
InitGenUI ==
    /\ AppInit({}, [classifier |-> {}, responder |-> {}], 0)
    /\ HarnessIdle
    /\ apiKey \in {"<API_KEY>", ""}
    /\ genMessages = <<>>
    /\ input = ""
    /\ loading = FALSE
    /\ activeUI = NoUI
    /\ genClosure = [messages |-> <<>>, input |-> "", loading |-> FALSE, activeUI |-> NoUI]
    /\ invocation = [s \in Submissions |-> NoInvocation]
    /\ genSubmitted = 0
    /\ genEvents = <<>>

\* React re-renders the GenUI App
GenRender ==
    /\ genClosure /= GenCaptured
    /\ genClosure' = GenCaptured
    /\ UNCHANGED << apiKey, genMessages, input, loading, activeUI, invocation,
                    genSubmitted, genEvents >>
    /\ UNCHANGED << appVars, harnessVars >>

\* onChange of the input, which is disabled={loading}
GenType(text) ==
    /\ ~genClosure.loading
    /\ input /= text
    /\ input' = text
    /\ UNCHANGED << apiKey, genMessages, loading, activeUI, genClosure, invocation,
                    genSubmitted, genEvents >>
    /\ UNCHANGED << appVars, harnessVars >>

\* if (!input.trim() || loading) return;
GenGuard(c) == Trim(c.input) /= "" /\ ~c.loading

\* handleSubmit is invoked and returns at the guard
HandleSubmitRejected ==
    /\ ~GenGuard(genClosure)
    /\ UNCHANGED genVars
    /\ UNCHANGED << appVars, harnessVars >>

\* handleSubmit is invoked, passes the guard and runs to await invokeAI(..):
\* setInput(''), setLoading(true), the event for an open interface, the user
\* message appended
HandleSubmit ==
    /\ GenGuard(genClosure)
    /\ genSubmitted < MaxSubmissions
    /\ LET sub == genSubmitted + 1
           userText == genClosure.input
       IN  /\ genSubmitted' = sub
           /\ input' = ""
           /\ loading' = TRUE
           /\ genEvents' = IF genClosure.activeUI /= NoUI
                           THEN Append(genEvents, userText) ELSE genEvents
           /\ genMessages' = Append(genMessages, UserMsg(sub, userText))
           /\ invocation' = [invocation EXCEPT ![sub] =
                                [pc |-> "invoking", text |-> userText]]
    /\ UNCHANGED << apiKey, activeUI, genClosure >>
    /\ UNCHANGED << appVars, harnessVars >>

\* invokeAI of invocation s resolves (its fetch has ended in o, or no fetch
\* was made for want of a key) and handleSubmit runs to its end: the
\* aios-core message appended, the pop-up opened on a code reply, and
\* finally setLoading(false)
InvokeSettles(s, o) ==
    /\ invocation[s].pc = "invoking"
    /\ Truthy(apiKey) <=> o /= GenNoFetch
    /\ LET aiMsg == AiMsg(s, InvokeAI(apiKey, o))
       IN  /\ genMessages' = Append(genMessages, aiMsg)
           /\ activeUI' = IF aiMsg.type = "code" THEN aiMsg ELSE activeUI
    /\ loading' = FALSE
    /\ invocation' = [invocation EXCEPT ![s] = [pc |-> "done", text |-> ""]]
    /\ UNCHANGED << apiKey, input, genClosure, genSubmitted, genEvents >>
    /\ UNCHANGED << appVars, harnessVars >>

\* onClick of the View UI button of a rendered code message
ViewUI(m) ==
    /\ m \in Range(genClosure.messages)
    /\ m.type = "code"
    /\ activeUI /= m
    /\ activeUI' = m
    /\ UNCHANGED << apiKey, genMessages, input, loading, genClosure, invocation,
                    genSubmitted, genEvents >>
    /\ UNCHANGED << appVars, harnessVars >>

\* onClick of the Close button of the rendered pop-up
CloseUI ==
    /\ genClosure.activeUI /= NoUI
    /\ activeUI /= NoUI
    /\ activeUI' = NoUI
    /\ UNCHANGED << apiKey, genMessages, input, loading, genClosure, invocation,
                    genSubmitted, genEvents >>
    /\ UNCHANGED << appVars, harnessVars >>

NextGenUI ==
    \/ GenRender
    \/ \E text \in Texts : GenType(text)
    \/ HandleSubmitRejected
    \/ HandleSubmit
    \/ \E s \in Submissions, o \in GenOutcomes \cup {GenNoFetch} : InvokeSettles(s, o)
    \/ \E m \in Range(genMessages) : ViewUI(m)
    \/ CloseUI

NextRetry ==
    \/ \E o \in TransportOutcomes : HarnessFetchSettles(o)
    \/ HarnessTimerFires

\* the harness over replies that carry grounding attributions
NextGrounding ==
    \/ \E o \in GroundedOutcomes : HarnessFetchSettles(o)
    \/ HarnessTimerFires

Next ==
    \/ \E u \in active : Mount(u)
    \/ \E u \in active : AuthStateChanged(u)
    \/ \E u \in active : AuthFailed(u)
    \/ \E u \in active : Render(u)
    \/ \E u \in active, text \in Texts : Type(u, text)
    \/ \E u \in active : Snapshot(u)
    \/ \E u \in active : HandleSendRejected(u)
    \/ \E u \in active : HandleSend(u)
    \/ \E s \in Submissions, o \in network.classifier : ClassifierFetchSettles(s, o)
    \/ \E s \in Submissions : ClassifierTimerFires(s)
    \/ \E s \in Submissions, o \in network.responder : ResponderFetchSettles(s, o)
    \/ \E s \in Submissions : ResponderTimerFires(s)
    \/ \E s \in Submissions : CommitResolves(s)
    \/ \E s \in Submissions : CommitRejects(s)

\* the steps of sessions that are mounted and signed in and submit the text
\* they have typed
NextSessions ==
    \/ \E u \in active : Render(u)
    \/ \E u \in active : Snapshot(u)
    \/ \E u \in active : HandleSendRejected(u)
    \/ \E u \in active : HandleSend(u)
    \/ \E s \in Submissions, o \in network.classifier : ClassifierFetchSettles(s, o)
    \/ \E s \in Submissions : ClassifierTimerFires(s)
    \/ \E s \in Submissions, o \in network.responder : ResponderFetchSettles(s, o)
    \/ \E s \in Submissions : ResponderTimerFires(s)
    \/ \E s \in Submissions : CommitResolves(s)
    \/ \E s \in Submissions : CommitRejects(s)

Spec == Init /\ [][Next]_vars

SpecPipeline == InitPipeline /\ [][Next]_vars

SpecSessions == InitSessions /\ [][NextSessions]_vars

SpecRetry == InitRetry /\ [][NextRetry]_vars

SpecGrounding == InitRetry /\ [][NextGrounding]_vars

SpecGenUI == InitGenUI /\ [][NextGenUI]_vars

\* the GenUI client where React renders and every invokeAI promise settles
SpecGenUIFair ==
    /\ InitGenUI
    /\ [][NextGenUI]_vars
    /\ WF_vars(GenRender)
    /\ WF_vars(\E s \in Submissions, o \in GenOutcomes \cup {GenNoFetch} :
                  InvokeSettles(s, o))

\* the harness where every fetch settles and every timer fires
SpecRetryFair ==
    /\ InitRetry
    /\ [][NextRetry]_vars
    /\ WF_vars(\E o \in TransportOutcomes : HarnessFetchSettles(o))
    /\ WF_vars(HarnessTimerFires)

(***************************************************************************)
(* Properties                                                              *)
(***************************************************************************)
UserRecordIn(S, s) == \E r \in S : r.sub = s /\ r.type = "user_query" /\ ~r.isSystem

SystemRecordIn(S, s) == \E r \in S : r.sub = s /\ r.isSystem

\* the submissions of session u whose chain is in progress
InProgress(u) ==
    { s \in Submissions :
        chain[s].session = u /\ chain[s].pc \in {"classifying", "responding", "committing"} }

\* C1: in the shared collection and in every list a snapshot delivered, the
\* user_query record of a submission is present exactly when its system
\* record is, also after a rejected commit.
C1_PairAtomic ==
    \A s \in Submissions :
        /\ UserRecordIn(log, s) <=> SystemRecordIn(log, s)
        /\ \A u \in active :
              UserRecordIn(Range(messages[u]), s) <=> SystemRecordIn(Range(messages[u]), s)

\* C1 witness: one submission's pair is committed and rendered while the
\* commit of another submission was rejected and left no record
C1_Witness ==
    \E s, t \in Submissions :
        /\ UserRecordIn(log, s) /\ SystemRecordIn(Range(messages[1]), s)
        /\ chain[t].pc = "done" /\ ~UserRecordIn(log, t) /\ ~SystemRecordIn(log, t)

\* C2: whenever the handler of an accepted submission has ended, it has
\* called batch.commit() exactly once, with a batch of exactly two records:
\* the user's user_query record and a system record authored by AIos_gNode.
C2_AppendOncePerSubmission ==
    \A s \in Submissions :
        /\ chain[s].commits <= 1
        /\ chain[s].pc \in {"committing", "done", "threw"} => chain[s].commits = 1
        /\ chain[s].pc = "committing" =>
              /\ Len(chain[s].batch) = 2
              /\ chain[s].batch[1].type = "user_query"
              /\ chain[s].batch[1].userId = chain[s].userId
              /\ chain[s].batch[2].isSystem
              /\ chain[s].batch[2].userId = "AIos_gNode"

\* C3: once nothing of a session's accepted submissions is outstanding (every
\* handler has ended and every commit has settled), isSending is false.
C3_InFlightReleased ==
    \A u \in active :
        (\A s \in Submissions :
            chain[s].session = u => chain[s].pc \in {"done", "threw"})
        => ~isSending[u]

\* C4: at most one classify-respond-persist chain of a session is in
\* progress at any time.
C4_SingleChain == \A u \in active : Cardinality(InProgress(u)) <= 1

\* C5: once an accepted submission has ended (its handler has ended and its
\* commit, if any, has settled), its system record is in the collection the
\* chat view renders.
C5_FailureVisible ==
    \A s \in Submissions :
        chain[s].pc \in {"done", "threw"} => SystemRecordIn(log, s)

\* what JSON.parse makes of the replies the classifier may get in this run
ParsedReplies ==
    { JSONParse(o.text).value :
        o \in { x \in network.classifier :
                    x.kind = "response" /\ ResponseOk(x) /\ x.bodyOk /\ Truthy(x.text)
                    /\ JSONParse(x.text).ok } }

\* C6 as claimed: callGeminiOrchestrator never throws (the catch block around
\* the call in handleSend never runs).
C6_NeverThrows == \A s \in Submissions : ~chain[s].caught

\* C6 amended: no failure of callGeminiOrchestrator escapes handleSend. The
\* call either returns (the parsed reply, or a synthesized result with intent
\* error) or throws, and handleSend catches every throw and goes on to the
\* commit with the synthesized result { intent: error, tool_triggered: API
\* Failure, query: the error message }.
C6_ThrowsAreCaught ==
    \A s \in Submissions :
        chain[s].pc \in {"responding", "committing", "threw"} =>
            IF chain[s].caught
            THEN /\ chain[s].pc = "committing"
                 /\ chain[s].result.intent = "error"
                 /\ chain[s].result.tool_triggered = "API Failure"
                 /\ chain[s].result.arguments.kind = "object"
                 /\ chain[s].result.arguments.query /= NoMessage
                 /\ chain[s].batch[2].type = "error"
            ELSE chain[s].result \in ParsedReplies \cup {SystemError, ApiTimeout}

\* C6 witness: the classifier call threw and the handler reached the commit
C6_Witness ==
    \E s \in Submissions : chain[s].caught /\ chain[s].pc = "committing"

\* a retryable failure as the retry contract defines it: 429, a status of
\* 500 or more, or a connectivity failure
RetryableFailure(o) ==
    \/ o.kind = "reject"
    \/ o.kind = "response" /\ (o.status = 429 \/ o.status >= 500)

\* C7: when all three attempts of callGeminiOrchestrator end in a retryable
\* failure, the call returns the timeout result (intent error, tool label API
\* Timeout) and does not throw.
C7_TimeoutAfterExhaustion ==
    ( /\ Len(script) = MAX_RETRIES
      /\ \A k \in DOMAIN script : RetryableFailure(script[k])
      /\ oc.i >= MAX_RETRIES - 1
      /\ oc.phase \in {"returned", "threw"} )
    => (oc.phase = "returned" /\ oc.value = ApiTimeout)

\* C8: one invocation of either call issues one request per attempt, at most
\* MAX_RETRIES requests in all, and starts at most MAX_RETRIES - 1 waits.
C8_RequestsBounded ==
    /\ oc.fetches = oc.i + 1 /\ oc.fetches <= MAX_RETRIES
    /\ Len(oc.waits) <= MAX_RETRIES - 1
    /\ rc.fetches = rc.i + 1 /\ rc.fetches <= MAX_RETRIES
    /\ Len(rc.waits) <= MAX_RETRIES - 1

\* C8 witness: both calls have made three requests and two waits and ended
C8_Witness ==
    /\ oc.fetches = MAX_RETRIES /\ Len(oc.waits) = MAX_RETRIES - 1 /\ oc.phase = "threw"
    /\ rc.fetches = MAX_RETRIES /\ Len(rc.waits) = MAX_RETRIES - 1 /\ rc.phase = "threw"

BackoffSchedule == << 1000, 2000 >>

\* C9: within one call of callGeminiOrchestrator the wait before attempt 2 is
\* 1000 ms and the wait before attempt 3 is 2000 ms, whatever retryable
\* failures came before; after two retryable failures and a 200 reply the
\* call has waited 1000 then 2000 and returns the payload of the 200 reply.
C9_BackoffSchedule ==
    /\ \A k \in DOMAIN oc.waits : k <= Len(BackoffSchedule) /\ oc.waits[k] = BackoffSchedule[k]
    /\ oc.phase = "fetching" => Len(oc.waits) = oc.i
    /\ oc.phase = "waiting" => Len(oc.waits) = oc.i + 1
    /\ ( /\ Len(script) = MAX_RETRIES
         /\ RetryableFailure(script[1]) /\ RetryableFailure(script[2])
         /\ oc.i = MAX_RETRIES - 1
         /\ script[3].kind = "response" /\ ResponseOk(script[3]) /\ script[3].bodyOk
         /\ Truthy(script[3].text) /\ JSONParse(script[3].text).ok )
       => /\ oc.phase = "returned"
          /\ oc.waits = BackoffSchedule
          /\ oc.value = JSONParse(script[3].text).value

\* C9 witness: 500, 500, 200
C9_Witness ==
    /\ script = << Http(500), Http(500), Ok(JsonCalendar) >>
    /\ oc.phase = "returned"
    /\ oc.value = Object("calendar_tool", "Calendar API", Arguments(Str("lunch Friday")))

\* a terminal failure as the retry contract defines it: a non-OK status
\* other than 429 and below 500, or an application-level error (a body or a
\* reply text that does not parse as JSON)
TerminalStatus(o) ==
    o.kind = "response" /\ ~ResponseOk(o) /\ o.status /= 429 /\ o.status < 500

UnparseableBody(o) == o.kind = "response" /\ ResponseOk(o) /\ ~o.bodyOk

UnparseableText(o) ==
    o.kind = "response" /\ ResponseOk(o) /\ o.bodyOk /\ Truthy(o.text)
        /\ ~JSONParse(o.text).ok

\* C10: a terminal failure is never retried. When attempt k of a call ends in
\* a terminal failure, the call throws from that attempt: no wait is started
\* and no further request is made.
C10_TerminalNeverRetried ==
    \A k \in DOMAIN script :
        /\ ( /\ oc.i >= k - 1
             /\ TerminalStatus(script[k]) \/ UnparseableBody(script[k])
                    \/ UnparseableText(script[k]) )
           => (oc.phase = "threw" /\ oc.i = k - 1 /\ Len(oc.waits) = k - 1 /\ oc.fetches = k)
        /\ ( /\ rc.i >= k - 1
             /\ TerminalStatus(script[k]) \/ UnparseableBody(script[k]) )
           => (rc.phase = "threw" /\ rc.i = k - 1 /\ Len(rc.waits) = k - 1 /\ rc.fetches = k)

\* a value that lacks `intent`, `tool_triggered` or an `arguments` object
Malformed(v) ==
    \/ v.kind /= "object"
    \/ v.intent = Undefined
    \/ v.tool_triggered = Undefined
    \/ v.arguments.kind /= "object"

\* C11: malformed classifier output never propagates. Once the classifier
\* call of a submission has ended, the handler has not thrown, the value it
\* goes on with has `intent`, `tool_triggered` and an `arguments` object, and
\* when the call threw (a reply that does not parse) the intent is error.
C11_MalformedBecomesError ==
    \A s \in Submissions :
        chain[s].pc \in {"responding", "committing", "threw"} =>
            /\ chain[s].pc /= "threw"
            /\ ~Malformed(chain[s].result)
            /\ chain[s].caught => chain[s].result.intent = "error"

\* the six intents of the contract (knowledge_response is gemini_response)
Intents ==
    {"calendar_tool", "communication_tool", "image_generation", "gemini_response",
     "general_chat", "error"}

\* C12: the intent handleSend branches on, and the type of every system
\* record it puts in a batch, is one of the six enumerated intents.
C12_IntentEnumerated ==
    \A s \in Submissions :
        /\ chain[s].pc \in {"responding", "committing"} =>
              chain[s].result.intent \in Intents
        /\ chain[s].pc = "committing" => chain[s].batch[2].type \in Intents

C14_GroundingIffKnowledge ==
    rc.phase /= "idle" =>
        /\ rc.payload.tools = "google_search" <=> rc.intent = "gemini_response"
        /\ rc.intent /= "gemini_response" =>
              /\ rc.payload.tools = Undefined
              /\ rc.payload.systemPrompt = "conversational assistant"

\* C14 witness: a grounded request on its third attempt, and in another run
\* an ungrounded one
C14_Witness ==
    /\ rc.intent = "gemini_response" /\ rc.payload.tools = "google_search"
    /\ rc.phase = "fetching" /\ rc.fetches = MAX_RETRIES

\* the sequence without the later occurrences of a string
RECURSIVE Dedup(_)
Dedup(seq) ==
    IF seq = <<>> THEN <<>>
    ELSE LET init == Dedup(SubSeq(seq, 1, Len(seq) - 1))
             last == seq[Len(seq)]
         IN  IF \E k \in DOMAIN init : init[k] = last THEN init
             ELSE Append(init, last)

\* the first three entries of a list
FirstThree(seq) == [k \in 1 .. (IF Len(seq) < 3 THEN Len(seq) ELSE 3) |-> seq[k]]

\* title when present, otherwise the locator; entries with neither skipped
TitleOrLocator(items) ==
    LET pick(a) == IF a.web /\ a.title \notin {Undefined, ""} THEN a.title
                   ELSE IF a.web THEN a.uri ELSE Undefined
        RECURSIVE Kept(_)
        Kept(l) == IF l = <<>> THEN <<>>
                   ELSE IF pick(Head(l)) \in {Undefined, ""} THEN Kept(Tail(l))
                   ELSE <<pick(Head(l))>> \o Kept(Tail(l))
    IN  Kept(items)

\* C15: when the call returns the text of a reply, the Sources entries are
\* the first three of the reply's attributions (title when present, otherwise
\* the locator, entries with neither skipped), in the original order, with
\* duplicates removed; with no attributions, or none that yields an entry,
\* nothing is appended to the text.
C15_CitationComposition ==
    ( /\ rc.phase = "returned"
      /\ rc.fetches <= Len(script)
      /\ Truthy(script[rc.fetches].text) )
    => LET reply == script[rc.fetches]
           entries == IF reply.attributions.kind = "array"
                      THEN TitleOrLocator(reply.attributions.items) ELSE <<>>
           sources == rc.answer.citations
       IN  /\ rc.answer.text = reply.text
           /\ Len(sources) <= 3
           /\ \A j, k \in DOMAIN sources : j /= k => sources[j] /= sources[k]
           /\ sources \in { FirstThree(Dedup(entries)), Dedup(FirstThree(entries)) }
           /\ entries = <<>> => sources = <<>>

\* C16: the text of the system record of every batch begins with the
\* summary of the classification (intent, tool label, argument summary) and
\* goes on with the continuation of the branch taken.
C16_SummaryPrefix ==
    \A s \in Submissions :
        chain[s].pc = "committing" =>
            LET text == chain[s].batch[2].text
            IN  /\ text.lead = "summary"
                /\ text.intent = chain[s].result.intent
                /\ text.tool = chain[s].result.tool_triggered
                /\ text.query = chain[s].result.arguments.query
                /\ text.cont \in {"--- AIos Response ---",
                                  "--- Response Generation Failed ---",
                                  "**Tool Execution Mock:**"}

\* C17: when batch.commit() of a submission is rejected, the error banner of
\* its session becomes the send failure, isSending of the session is cleared,
\* the collection is unchanged, the handler has not thrown, and a render of
\* the new state lets the next submission through the guard.
C17_CommitRejectionSurfaced ==
    [][ \A s \in Submissions :
          ( chain[s].pc = "committing" /\ chain'[s].pc = "done" /\ clock' = clock )
          => LET u == chain[s].session
             IN  /\ error'[u] = "Failed to send message: Missing or insufficient permissions."
                 /\ ~isSending'[u]
                 /\ log' = log
                 /\ \A t \in Submissions : chain'[t].pc = "threw" => chain[t].pc = "threw"
                 /\ Guard([db |-> db'[u], isAuthReady |-> isAuthReady'[u],
                           userId |-> userId'[u],
                           newMessage |-> "Schedule lunch Friday ",
                           isSending |-> isSending'[u]]) ]_vars

\* C17 witness: the commit of the first submission was rejected, the second
\* submission was accepted after it (the banner is cleared) and is committed
C17_Witness ==
    /\ chain[1].pc = "done" /\ ~UserRecordIn(log, 1) /\ ~SystemRecordIn(log, 1)
    /\ chain[2].pc = "done" /\ UserRecordIn(log, 2) /\ SystemRecordIn(log, 2)
    /\ error[1] = NoError /\ ~isSending[1]

\* the chain of submission s after the fetch of its responder call settled
\* with outcome o
AfterResponderFetch(s, o) ==
    LET c == ResponderAttempt(chain[s].responder, o)
        ch == [chain[s] EXCEPT !.responder = c]
    IN  IF c.phase = "waiting" THEN ch ELSE AfterResponder(ch, s)

\* the responder call of submission s ends in failure on outcome o: a
\* terminal failure, or a retryable failure on the last attempt
ResponderFailure(s, o) ==
    \/ TerminalStatus(o)
    \/ UnparseableBody(o)
    \/ RetryableFailure(o) /\ chain[s].responder.i = MAX_RETRIES - 1

\* C18: when the responder call of a submission ends in a terminal failure
\* or in retry exhaustion, the handler goes on to the commit of the record
\* pair with the Response Generation Failed continuation and the error of the
\* call; the AIos Response continuation is composed only when the call
\* returned on a 200 reply with a body; the handler never throws there.
C18_ResponderFailureDistinguishable ==
    [][ \A s \in Submissions : \A o \in network.responder :
          ( /\ chain[s].pc = "responding"
            /\ chain[s].responder.phase = "fetching"
            /\ chain'[s] /= chain[s]
            /\ chain'[s] = AfterResponderFetch(s, o) )
          => /\ chain'[s].pc \in {"responding", "committing"}
             /\ ResponderFailure(s, o) =>
                   /\ chain'[s].pc = "committing"
                   /\ Len(chain'[s].batch) = 2
                   /\ chain'[s].batch[2].text.cont = "--- Response Generation Failed ---"
                   /\ chain'[s].batch[2].text.error.prefix = "Response Generator failed: "
                   /\ chain'[s].batch[2].text.answer = NoAnswer
             /\ ( /\ chain'[s].pc = "committing"
                  /\ chain'[s].batch[2].text.cont = "--- AIos Response ---" )
                => /\ o.kind = "response" /\ ResponseOk(o) /\ o.bodyOk
                   /\ Len(chain'[s].batch) = 2
                   /\ chain'[s].batch[2].text.error = NoMessage ]_vars

\* C18 witness: a batch whose system text reports the exhaustion of the
\* responder's retries
C18_Witness ==
    \E s \in Submissions :
        /\ chain[s].pc = "committing"
        /\ chain[s].batch[2].text.cont = "--- Response Generation Failed ---"
        /\ chain[s].batch[2].text.error =
              [prefix |-> "Response Generator failed: ",
               tmpl |-> "Response Generator API returned status ${response.status} after ${MAX_RETRIES} attempts.",
               status |-> 503]

\* C19: whenever callGeminiOrchestrator threw, the handler goes on with
\* intent error, tool label API Failure and the error message as summary,
\* makes no responder call, and commits the record pair with a system record
\* of type error.
C19_OrchestratorThrowBecomesError ==
    \A s \in Submissions :
        chain[s].caught =>
            /\ chain[s].pc = "committing"
            /\ chain[s].result.intent = "error"
            /\ chain[s].result.tool_triggered = "API Failure"
            /\ chain[s].result.arguments.kind = "object"
            /\ chain[s].result.arguments.query.tmpl \notin {"", Undefined}
            /\ chain[s].calls = 0 /\ chain[s].responder.phase = "idle"
            /\ chain[s].commits = 1
            /\ Len(chain[s].batch) = 2
            /\ chain[s].batch[1].type = "user_query"
            /\ chain[s].batch[2].type = "error"
            /\ chain[s].batch[2].isSystem
            /\ chain[s].batch[2].text.tool = "API Failure"
            /\ chain[s].batch[2].text.query = chain[s].result.arguments.query

\* C19 witness: the classifier call threw after three 503 replies and the
\* pair with the error record is being committed
C19_Witness ==
    \E s \in Submissions :
        /\ chain[s].caught /\ chain[s].pc = "committing"
        /\ chain[s].batch[2].type = "error"
        /\ chain[s].batch[2].text.query =
              Message("Orchestrator API returned status ${response.status} after ${MAX_RETRIES} attempts.",
                      503)

\* a 200 reply with a body that carries a text: a successful body
SuccessfulBody(o) ==
    o.kind = "response" /\ ResponseOk(o) /\ o.bodyOk /\ Truthy(o.text)

\* C20: fed the same transport outcomes, the two calls take the same
\* decisions at every step: the same attempt, the same requests made, the
\* same waits of the same lengths, and both wait, both retry, both abort or
\* both finish together; they may differ only in how they end on a successful
\* body (the parsed value, the text, or a throw on a text that does not
\* parse), and both end there.
C20_SameRetryBehaviour ==
    /\ oc.i = rc.i
    /\ oc.delay = rc.delay
    /\ oc.waits = rc.waits
    /\ oc.fetches = rc.fetches
    /\ \/ oc.phase = rc.phase
       \/ /\ oc.phase \in {"returned", "threw"}
          /\ rc.phase \in {"returned", "threw"}
          /\ Len(script) = oc.fetches
          /\ SuccessfulBody(script[Len(script)])

\* C22: when every fetch settles and every timer fires, each call ends: it
\* has returned or thrown, after at most MAX_RETRIES attempts.
C22_CallsTerminate ==
    <>( /\ oc.phase \in {"returned", "threw"} /\ oc.fetches <= MAX_RETRIES
        /\ rc.phase \in {"returned", "threw"} /\ rc.fetches <= MAX_RETRIES )

\* C22 witness: both calls have ended on the reply of their third attempt
C22_Witness ==
    /\ Len(script) = MAX_RETRIES
    /\ oc.phase = "returned" /\ oc.fetches = MAX_RETRIES /\ oc.value = SystemError
    /\ rc.phase = "returned" /\ rc.fetches = MAX_RETRIES

\* C23: after every snapshot delivery the list of the session holds exactly
\* the delivered records (the collection and the session's pending writes),
\* in ascending order of commit timestamp, a pending record counting as 0.
C23_SnapshotSorted ==
    [][ \A u \in active :
          messages'[u] /= messages[u] =>
              LET list == messages'[u]
                  delivered == log \cup PendingWrites(u)
              IN  /\ Range(list) = delivered
                  /\ Len(list) = Cardinality(delivered)
                  /\ \A j, k \in DOMAIN list :
                        j < k => list[j].timestamp <= list[k].timestamp ]_vars

\* what a step leaves alone of session v: its React state, its last render
\* and its submissions
SessionUntouched(v) ==
    /\ isSending'[v] = isSending[v]
    /\ error'[v] = error[v]
    /\ newMessage'[v] = newMessage[v]
    /\ closure'[v] = closure[v]
    /\ messages'[v] = messages[v]
    /\ \A s \in Submissions :
          (chain[s].session = v \/ chain'[s].session = v) => chain'[s] = chain[s]

\* C21: two sessions on one collection are independent. Every step is a
\* step of one session and leaves the flag, the error, the input, the list
\* and the submissions of the other session as they are; a step adds to the
\* collection nothing or the two records of one submission's batch, with one
\* commit time; and in every state every record in the collection has its
\* partner of the same submission and commit time.
C21_SessionsIndependent ==
    [][ /\ \E u \in active : \A v \in active \ {u} : SessionUntouched(v)
        /\ \/ log' = log
           \/ \E s \in Submissions :
                 /\ chain[s].pc = "committing" /\ chain'[s].pc = "done"
                 /\ log' \ log = Committed(chain[s].batch, clock)
                 /\ Cardinality(log' \ log) = 2
                 /\ log \subseteq log'
        /\ \A r \in log' :
              \E p \in log' :
                 /\ p.sub = r.sub /\ p.timestamp = r.timestamp
                 /\ p.isSystem /= r.isSystem ]_vars

\* C21 witness: the handler of session 1 threw and left its flag set, session
\* 2 waited in a backoff, and the pair of session 2 is committed
C21_Witness ==
    \E s, t \in Submissions :
        /\ chain[s].session = 1 /\ chain[s].pc = "threw" /\ isSending[1]
        /\ chain[t].session = 2 /\ chain[t].pc = "done" /\ ~isSending[2]
        /\ UserRecordIn(log, t) /\ SystemRecordIn(log, t)
        /\ \E r \in log : r.sub = t /\ ~r.isSystem /\ r.userId = SessionUser(2)

\* C24: when the fetch of a responder attempt settles with a 200 reply that
\* carries no text, the call returns the fixed diagnostic string at once (no
\* wait, no further attempt) and the handler composes it as the answer of the
\* AIos Response continuation and goes on to the commit.
C24_NoTextDiagnostic ==
    [][ \A s \in Submissions : \A o \in network.responder :
          ( /\ chain[s].pc = "responding"
            /\ chain[s].responder.phase = "fetching"
            /\ o.kind = "response" /\ ResponseOk(o) /\ o.bodyOk /\ ~Truthy(o.text)
            /\ chain'[s] /= chain[s]
            /\ chain'[s] = AfterResponderFetch(s, o) )
          => /\ chain'[s].pc = "committing"
             /\ Len(chain'[s].batch) = 2
             /\ chain'[s].batch[2].text.cont = "--- AIos Response ---"
             /\ chain'[s].batch[2].text.answer.text =
                    "Gemini failed to generate a response (no text returned)."
             /\ chain'[s].batch[2].text.answer.text \notin {"", Undefined}
             /\ chain'[s].batch[2].text.answer.citations = <<>>
             /\ chain'[s].batch[2].text.error = NoMessage ]_vars

\* C24 witness: a batch whose system text carries the diagnostic as answer
C24_Witness ==
    \E s \in Submissions :
        /\ chain[s].pc = "committing"
        /\ chain[s].batch[2].text.cont = "--- AIos Response ---"
        /\ chain[s].batch[2].text.answer.text =
              "Gemini failed to generate a response (no text returned)."

\* the stage a submission is in, and what has and has not happened by then
StageOrder(ch) ==
    /\ ch.pc = "classifying" =>
          /\ ch.classifier.phase \in {"fetching", "waiting"}
          /\ ch.result = NoValue
          /\ ch.responder.phase = "idle" /\ ch.calls = 0
          /\ ch.finalResponse = NoText /\ ch.batch = <<>> /\ ch.commits = 0
    /\ ch.pc = "responding" =>
          /\ ch.classifier.phase = "idle" /\ ch.result /= NoValue
          /\ ch.responder.phase \in {"fetching", "waiting"} /\ ch.calls = 1
          /\ ch.finalResponse = NoText /\ ch.batch = <<>> /\ ch.commits = 0
    /\ ch.pc = "committing" =>
          /\ ch.classifier.phase = "idle" /\ ch.result /= NoValue
          /\ ch.responder.phase = "idle"
          /\ ch.finalResponse /= NoText
          /\ Len(ch.batch) = 2 /\ ch.batch[2].text = ch.finalResponse
          /\ ch.commits = 1

\* the order of the stages
StageFollows(from, to) ==
    \/ from = to
    \/ from = "unused" /\ to = "classifying"
    \/ from = "classifying" /\ to \in {"responding", "committing", "threw"}
    \/ from = "responding" /\ to \in {"committing", "threw"}
    \/ from = "committing" /\ to = "done"

\* C25: within one submission the classifier call has ended before the
\* branch is taken, the responder call is issued only after it, the commit is
\* issued only once the system text is final and is followed by no further
\* call, and isSending of a session is cleared only in the step in which a
\* commit of the session settles.
C25_StageOrdering ==
    [][ /\ \A s \in Submissions :
              /\ StageOrder(chain'[s])
              /\ StageFollows(chain[s].pc, chain'[s].pc)
        /\ \A u \in active :
              (isSending[u] /\ ~isSending'[u]) =>
                  \E s \in Submissions :
                      /\ chain[s].session = u
                      /\ chain[s].pc = "committing" /\ chain'[s].pc = "done" ]_vars

\* C25 witness: a submission that was classified and answered is committing
C25_Witness ==
    \E s \in Submissions :
        /\ chain[s].pc = "committing" /\ chain[s].calls = 1
        /\ chain[s].batch[2].text.cont = "--- AIos Response ---"
        /\ chain[s].batch[2].text.answer.text = "It is sunny."
        /\ isSending[chain[s].session]

\* C26: an invocation of handleSend made with no store handle, with no user
\* identifier, with a text that is empty after trimming, or while isSending
\* of the session is true changes nothing: a submission is accepted (the flag
\* set, the error cleared, a classifier request issued) only when the
\* invocation has a store handle, a user identifier and a text, and isSending
\* is false at that moment.
C26_RejectedChangesNothing ==
    [][ submitted' = submitted + 1 =>
          LET u == chain'[submitted'].session
          IN  /\ closure[u].db /\ closure[u].userId /= Null
              /\ Trim(closure[u].newMessage) /= ""
              /\ ~isSending[u] ]_vars

\* C27: isSending of a session is true in every state in which a classifier
\* attempt, a backoff wait, a responder attempt or a commit of the session is
\* outstanding.
C27_FlagHeldWhileOutstanding ==
    \A u \in active : InProgress(u) /= {} => isSending[u]

\* C28: the input is cleared in the step that issues the commit; the
\* rejection of the commit does not bring the text back: it leaves the input
\* as it is, sets the error, and neither record of the submission is in the
\* collection, nor is its text kept with the submission.
C28_InputClearedAtIssue ==
    [][ \A s \in Submissions :
          LET u == chain'[s].session
          IN  /\ ( chain[s].pc \in {"classifying", "responding"}
                   /\ chain'[s].pc = "committing" )
                 => newMessage'[u] = ""
              /\ ( chain[s].pc = "committing" /\ chain'[s].pc = "done"
                   /\ clock' = clock )
                 => /\ newMessage'[u] = newMessage[u]
                    /\ error'[u] /= NoError
                    /\ ~UserRecordIn(log', s) /\ ~SystemRecordIn(log', s)
                    /\ chain'[s].text = "" /\ chain'[s].batch = <<>> ]_vars

\* C28 witness: the commit of the only submission was rejected; the input is
\* empty, the error is set and the collection is empty
C28_Witness ==
    /\ submitted = 1 /\ chain[1].pc = "done"
    /\ newMessage[1] = "" /\ error[1] = SendFailed(PermissionDenied)
    /\ log = {}

\* every submission that handleSubmit accepted and that has not settled is
\* followed by a state in which loading is false
GenLoadingCleared ==
    \A s \in Submissions : (invocation[s].pc = "invoking") ~> ~loading

\* C29: in the GenUI client every accepted submission eventually clears
\* loading, for every outcome of invokeAI, and a submission is accepted only
\* in a state where loading is false: while loading is true every further
\* submission is rejected.
C29_LoadingGuardsSubmission ==
    [][ genSubmitted' = genSubmitted + 1 => ~loading ]_vars

\* the position of the message with identifier id in the list, 0 if absent
GenPosition(id) ==
    IF \E k \in DOMAIN genMessages : genMessages[k].id = id
    THEN CHOOSE k \in DOMAIN genMessages : genMessages[k].id = id
    ELSE 0

\* the list only grows at its end
GenAppendOnly ==
    [][ /\ Len(genMessages') >= Len(genMessages)
        /\ SubSeq(genMessages', 1, Len(genMessages)) = genMessages ]_vars

\* invokeAI resolves with a string for every outcome, and with one that
\* begins Error: for every outcome that is a failure
GenInvokeNeverRejects ==
    \A o \in GenOutcomes \cup {GenNoFetch}, key \in {"<API_KEY>", ""} :
        LET reply == InvokeAI(key, o)
        IN  /\ reply \in [prefix : {"", "Error: "}, body : STRING]
            /\ (~Truthy(key) \/ o.kind \in {"reject", "badbody", "null"} \/ o.hasError)
                  => reply.prefix = "Error: "

\* C30: the message list of the GenUI client is append-only, and every
\* accepted submission adds exactly one user message and then exactly one
\* aios-core message, the second directly after the first: no message of
\* another submission is between them.
C30_PairsAdjacent ==
    /\ \A i, j \in DOMAIN genMessages :
          genMessages[i].id = genMessages[j].id => i = j
    /\ \A s \in Submissions :
          /\ s <= genSubmitted <=> GenPosition(2 * s - 1) /= 0
          /\ invocation[s].pc = "done" <=> GenPosition(2 * s) /= 0
          /\ GenPosition(2 * s) /= 0 =>
                GenPosition(2 * s) = GenPosition(2 * s - 1) + 1

\* the active interface is null or a code message of the list
GenActiveInList ==
    activeUI = NoUI \/ (activeUI.type = "code" /\ activeUI \in Range(genMessages))

\* a step that appends a reply classified as text leaves the active
\* interface as it is
GenTextNeverOpens ==
    [][ ( /\ Len(genMessages') = Len(genMessages) + 1
          /\ genMessages'[Len(genMessages')].sender = "aios-core"
          /\ genMessages'[Len(genMessages')].type = "text" )
        => activeUI' = activeUI ]_vars

\* a gen-ui-command event is dispatched by an accepted submission only, and
\* it carries the text of that submission
GenEventOnSubmissionOnly ==
    [][ /\ genSubmitted' = genSubmitted => genEvents' = genEvents
        /\ genSubmitted' = genSubmitted + 1 =>
              \/ genEvents' = genEvents
              \/ genEvents' = Append(genEvents,
                                     genMessages'[Len(genMessages')].text.body) ]_vars

\* a submission accepted through a render that holds the current active
\* interface dispatches the event exactly when an interface is active
GenEventWhenRendered ==
    [][ (genSubmitted' = genSubmitted + 1 /\ genClosure.activeUI = activeUI) =>
            (genEvents' /= genEvents <=> activeUI /= NoUI) ]_vars

\* an interface is open, rendered, and a submission made under it has
\* dispatched the event with its text
GenEventDispatched ==
    /\ activeUI /= NoUI /\ genClosure.activeUI = activeUI
    /\ genSubmitted = 2 /\ genEvents = << "Schedule lunch Friday " >>

\* C31: in the GenUI client the active interface is in every state null or a
\* code message that is in the message list, a reply classified as text
\* never opens or replaces the pop-up, and an accepted submission dispatches
\* the gen-ui-command event exactly when an interface is active in the state
\* in which it is accepted.
C31_ActiveInterfaceAndEvent ==
    [][ /\ GenActiveInList'
        /\ ( /\ Len(genMessages') = Len(genMessages) + 1
             /\ genMessages'[Len(genMessages')].sender = "aios-core"
             /\ genMessages'[Len(genMessages')].type = "text" )
           => activeUI' = activeUI
        /\ genSubmitted' = genSubmitted + 1 =>
              (genEvents' /= genEvents <=> activeUI /= NoUI) ]_vars

====
